---- MODULE Spec2Model ----
(***************************************************************************)
(* Model of libraries/node-core-library/src/Terminal/Terminal.ts:          *)
(* the Terminal class (provider registration, the eight write operations,  *)
(* the fan-out to the providers and the segment serializer).               *)
(*                                                                         *)
(* A JavaScript string is a sequence of one-character strings; the         *)
(* character U+001B is written "ESC".  A message part is a record          *)
(* [isString, text, foregroundColor, backgroundColor]; isString tells a    *)
(* bare string from an IColorableSequence, and an absent colour field has  *)
(* the value Unset.                                                        *)
(***************************************************************************)
EXTENDS Integers, Sequences, FiniteSets, TLC

\* ------------------------------------------------------------------ bounds
NumSinks == 2
MaxParts == 2
MaxSegs == 2
StackLimit == 3

\* ------------------------------------------------------- types and inputs
Sinks == 1..NumSinks

Unset == "undefined"
Color == {"Black", "Red", "Green", "Yellow", "Blue", "Magenta", "Cyan", "White", "Gray"}
ColorField == Color \cup {Unset}

Severity == {"log", "warn"}

EOL == <<"\n">>

StringPart(t) == [isString |-> TRUE, text |-> t, foregroundColor |-> Unset, backgroundColor |-> Unset]

Sequence(t, fg, bg) == [isString |-> FALSE, text |-> t, foregroundColor |-> fg, backgroundColor |-> bg]

EolSegment == Sequence(EOL, Unset, Unset)

\* the message parts the callers of the write operations pass
ArgParts ==
  { StringPart(<<"a">>),
    Sequence(<<"b">>, "Green", "Blue"),
    Sequence(<<>>, Unset, "Gray") }

SeqsUpTo(S, n) == UNION { [1..k -> S] : k \in 0..n }

ArgLists == SeqsUpTo(ArgParts, MaxParts)

\* the segments the serializer is exercised on: every colour combination
AllSegments ==
  { StringPart(t) : t \in {<<>>, <<"a">>} }
    \cup { Sequence(t, fg, bg) : t \in {<<>>, <<"a">>}, fg \in ColorField, bg \in ColorField }

TailSegments ==
  { StringPart(<<"b">>),
    Sequence(<<>>, Unset, Unset),
    Sequence(<<"b">>, "Yellow", "Blue"),
    Sequence(<<"b">>, Unset, "Gray"),
    Sequence(<<"b">>, "Gray", Unset) }

SerializerInputs ==
  { <<>> } \cup
  { <<s>> \o t : s \in AllSegments, t \in SeqsUpTo(TailSegments, MaxSegs - 1) }

\* ------------------------------------------------------------- serializer
Digit(d) ==
  CASE d = 0 -> "0" [] d = 1 -> "1" [] d = 2 -> "2" [] d = 3 -> "3" [] d = 4 -> "4"
    [] d = 5 -> "5" [] d = 6 -> "6" [] d = 7 -> "7" [] d = 8 -> "8" [] d = 9 -> "9"

RECURSIVE NumberToString(_)
NumberToString(code) ==
  IF code < 10 THEN <<Digit(code)>>
  ELSE NumberToString(code \div 10) \o <<Digit(code % 10)>>

EscapeSequence(code) == <<"ESC", "[">> \o NumberToString(code) \o <<"m">>

ForegroundCodes(c) ==
  CASE c = "Black"   -> [start |-> <<30>>, end |-> <<39>>]
    [] c = "Red"     -> [start |-> <<31>>, end |-> <<39>>]
    [] c = "Green"   -> [start |-> <<32>>, end |-> <<39>>]
    [] c = "Yellow"  -> [start |-> <<33>>, end |-> <<39>>]
    [] c = "Blue"    -> [start |-> <<34>>, end |-> <<39>>]
    [] c = "Magenta" -> [start |-> <<35>>, end |-> <<39>>]
    [] c = "Cyan"    -> [start |-> <<36>>, end |-> <<39>>]
    [] c = "White"   -> [start |-> <<37>>, end |-> <<39>>]
    [] c = "Gray"    -> [start |-> <<90>>, end |-> <<39>>]
    [] OTHER         -> [start |-> <<>>, end |-> <<>>]

BackgroundCodes(c) ==
  CASE c = "Black"   -> [start |-> <<40>>, end |-> <<49>>]
    [] c = "Red"     -> [start |-> <<41>>, end |-> <<49>>]
    [] c = "Green"   -> [start |-> <<42>>, end |-> <<49>>]
    [] c = "Yellow"  -> [start |-> <<43>>, end |-> <<49>>]
    [] c = "Blue"    -> [start |-> <<44>>, end |-> <<49>>]
    [] c = "Magenta" -> [start |-> <<45>>, end |-> <<49>>]
    [] c = "Cyan"    -> [start |-> <<46>>, end |-> <<49>>]
    [] c = "White"   -> [start |-> <<47>>, end |-> <<49>>]
    [] c = "Gray"    -> [start |-> <<100>>, end |-> <<49>>]
    [] OTHER         -> [start |-> <<>>, end |-> <<>>]

\* for (let i = 0; i < codes.length; i++) push ESC[<code>m
RECURSIVE EmitForward(_, _)
EmitForward(codes, i) ==
  IF i > Len(codes) THEN <<>>
  ELSE EscapeSequence(codes[i]) \o EmitForward(codes, i + 1)

\* for (let i = codes.length - 1; i >= 0; i--) push ESC[<code>m
RECURSIVE EmitBackward(_, _)
EmitBackward(codes, i) ==
  IF i < 1 THEN <<>>
  ELSE EscapeSequence(codes[i]) \o EmitBackward(codes, i - 1)

StartEscapes(startColorCodes) == EmitForward(startColorCodes, 1)

EndEscapes_Forward(endColorCodes) == EmitForward(endColorCodes, 1)

EndEscapes(endColorCodes) == EmitBackward(endColorCodes, Len(endColorCodes))

\* one iteration of the loop over segments: what it pushes on segmentsToJoin
SerializeSegment(segment, withColor) ==
  IF withColor
  THEN LET seg == IF segment.isString THEN Sequence(segment.text, Unset, Unset) ELSE segment
           fg == ForegroundCodes(seg.foregroundColor)
           bg == BackgroundCodes(seg.backgroundColor)
           startColorCodes == fg.start \o bg.start
           endColorCodes == fg.end \o bg.end
       IN StartEscapes(startColorCodes) \o seg.text \o EndEscapes(endColorCodes)
  ELSE segment.text

RECURSIVE JoinFrom(_, _, _)
JoinFrom(segments, withColor, i) ==
  IF i > Len(segments) THEN <<>>
  ELSE SerializeSegment(segments[i], withColor) \o JoinFrom(segments, withColor, i + 1)

serializeFormattableTextSegments(segments, withColor) == JoinFrom(segments, withColor, 1)

\* ---------------------------------------------------------------- fan-out
\* a local "let withColor: string": undefined until assigned
Undefined == [assigned |-> FALSE, text |-> <<>>]

Assigned(t) == [assigned |-> TRUE, text |-> t]

\* JavaScript truthiness of a string | undefined: undefined and "" are falsy
Truthy(v) == v.assigned /\ v.text # <<>>

\* the state of one _writeSegmentsToProviders call before the first provider
StartOfCall ==
  [withColor |-> Undefined, withoutColor |-> Undefined,
   colorCalls |-> 0, plainCalls |-> 0, writes |-> <<>>, error |-> "none"]

\* const textToWrite = provider.supportsColor ? (withColor || (withColor = ...))
\*                                            : (withoutColor || (withoutColor = ...))
TextToWrite_AlwaysPlain(st, providerSupportsColor, segments) ==
  IF Truthy(st.withoutColor)
  THEN [text |-> st.withoutColor.text, st |-> st]
  ELSE LET t == serializeFormattableTextSegments(segments, FALSE)
       IN [text |-> t,
           st |-> [st EXCEPT !.withoutColor = Assigned(t), !.plainCalls = @ + 1]]

TextToWrite(st, providerSupportsColor, segments) ==
  IF providerSupportsColor
  THEN IF Truthy(st.withColor)
       THEN [text |-> st.withColor.text, st |-> st]
       ELSE LET t == serializeFormattableTextSegments(segments, TRUE)
            IN [text |-> t,
                st |-> [st EXCEPT !.withColor = Assigned(t), !.colorCalls = @ + 1]]
  ELSE IF Truthy(st.withoutColor)
       THEN [text |-> st.withoutColor.text, st |-> st]
       ELSE LET t == serializeFormattableTextSegments(segments, FALSE)
            IN [text |-> t,
                st |-> [st EXCEPT !.withoutColor = Assigned(t), !.plainCalls = @ + 1]]

\* provider.write(textToWrite, severity): the sink records the call; a sink in
\* failing throws from it
ProviderWrite(st, provider, text, severity, failing) ==
  [st EXCEPT !.writes = Append(@, [sink |-> provider, text |-> text,
                                   severity |-> severity, ok |-> provider \notin failing]),
             !.error = IF provider \in failing THEN "SinkError" ELSE @]

\* the forEach callback has no try/catch: an exception thrown by
\* provider.write leaves forEach and the remaining providers are not visited
VisitsNext_Always(st) == TRUE

VisitsNext(st) == st.error = "none"

\* this._providers.forEach(...), in the Set's insertion order
RECURSIVE ForEachProvider(_, _, _, _, _, _, _)
ForEachProvider(ps, i, supports, failing, segments, severity, st) ==
  IF i > Len(ps) THEN st
  ELSE LET provider == ps[i]
           sel == TextToWrite(st, supports[provider], segments)
           st2 == ProviderWrite(sel.st, provider, sel.text, severity, failing)
       IN IF VisitsNext(st2)
          THEN ForEachProvider(ps, i + 1, supports, failing, segments, severity, st2)
          ELSE st2

\* the outcome of a public operation, as its caller and the sinks observe it
Outcome(segments, st, messageParts) ==
  [called |-> TRUE, segments |-> segments, writes |-> st.writes, error |-> st.error,
   colorCalls |-> st.colorCalls, plainCalls |-> st.plainCalls,
   messageParts |-> messageParts]

NoOutcome(messageParts) ==
  [called |-> FALSE, segments |-> <<>>, writes |-> <<>>, error |-> "none",
   colorCalls |-> 0, plainCalls |-> 0, messageParts |-> messageParts]

\* this = [providers, supportsColor, verboseEnabled]; env = the sinks that throw
writeSegmentsToProviders(this, env, segments, severity, messageParts) ==
  Outcome(segments,
          ForEachProvider(this.providers, 1, this.supportsColor, env, segments,
                          severity, StartOfCall),
          messageParts)

\* ------------------------------------------------------- write operations
\* { ...(typeof part === 'string' ? { text: part } : part), foregroundColor: color }
ForceForeground_CallerWins(part, color) ==
  LET base == IF part.isString THEN Sequence(part.text, Unset, Unset) ELSE part
  IN IF base.foregroundColor = Unset
     THEN [base EXCEPT !.isString = FALSE, !.foregroundColor = color]
     ELSE [base EXCEPT !.isString = FALSE]

ForceForeground(part, color) ==
  LET base == IF part.isString THEN Sequence(part.text, Unset, Unset) ELSE part
  IN [base EXCEPT !.isString = FALSE, !.foregroundColor = color]

\* messageParts.map(callback): a new array; the source array and its objects
\* are only read
MapForeground(messageParts, color) ==
  [result |-> [i \in DOMAIN messageParts |-> ForceForeground(messageParts[i], color)],
   source |-> messageParts]

write(this, env, messageParts) ==
  writeSegmentsToProviders(this, env, messageParts \o <<EolSegment>>, "log", messageParts)

writeLine(this, env, messageParts) ==
  [write(this, env, messageParts \o <<EolSegment>>) EXCEPT !.messageParts = messageParts]

writeWarning(this, env, messageParts) ==
  LET m == MapForeground(messageParts, "Yellow")
  IN writeSegmentsToProviders(this, env, m.result, "warn", m.source)

writeWarningLine(this, env, messageParts) ==
  LET m == MapForeground(messageParts, "Yellow")
  IN writeSegmentsToProviders(this, env, m.result \o <<EolSegment>>, "warn", m.source)

writeError(this, env, messageParts) ==
  LET m == MapForeground(messageParts, "Red")
  IN writeSegmentsToProviders(this, env, m.result, "warn", m.source)

writeErrorLine(this, env, messageParts) ==
  LET m == MapForeground(messageParts, "Yellow")
  IN writeSegmentsToProviders(this, env, m.result \o <<EolSegment>>, "warn", m.source)

writeVerbose_NoGate(this, env, messageParts) ==
  writeSegmentsToProviders(this, env, messageParts, "log", messageParts)

writeVerbose(this, env, messageParts) ==
  IF this.verboseEnabled
  THEN writeSegmentsToProviders(this, env, messageParts, "log", messageParts)
  ELSE NoOutcome(messageParts)

\* writeVerboseLine calls itself with one more segment, unconditionally; the
\* engine ends the recursion with a RangeError when the call stack is full
RECURSIVE writeVerboseLineFrame(_, _, _, _)
writeVerboseLineFrame(this, env, messageParts, depth) ==
  IF depth >= StackLimit
  THEN [NoOutcome(messageParts) EXCEPT !.error = "RangeError"]
  ELSE writeVerboseLineFrame(this, env, messageParts \o <<EolSegment>>, depth + 1)

writeVerboseLine(this, env, messageParts) ==
  [writeVerboseLineFrame(this, env, messageParts, 0) EXCEPT !.messageParts = messageParts]

\* ----------------------------------------------------------- registration
\* Set<ITerminalProvider> as the sequence of its members in insertion order
SetHas(ps, provider) == \E i \in DOMAIN ps : ps[i] = provider

SetAdd(ps, provider) == IF SetHas(ps, provider) THEN ps ELSE Append(ps, provider)

SetDelete(ps, provider) == SelectSeq(ps, LAMBDA x : x # provider)

registerProvider(ps, provider) == SetAdd(ps, provider)

unregisterProvider_NegatedTest(ps, provider) ==
  IF ~SetHas(ps, provider) THEN SetDelete(ps, provider) ELSE ps

unregisterProvider(ps, provider) ==
  IF SetHas(ps, provider) THEN SetDelete(ps, provider) ELSE ps

\* ------------------------------------------------------------------ state
VARIABLES
  providers,       \* Terminal._providers
  verboseEnabled,  \* Terminal.verboseEnabled
  supportsColor,   \* ITerminalProvider.supportsColor of every sink
  registeredLast,  \* per sink: its latest registration call was a register
  reRegistered,    \* the sink, if any, of the latest register call made on an
                   \* already registered sink, until it is registered afresh
  lastOp,          \* the message operation whose outcome is on record, or "none"
  args,            \* the message parts that operation was called with
  outcome,         \* what that operation did, a record of
                   \*   called: whether it called _writeSegmentsToProviders
                   \*   segments: the segments it passed to it
                   \*   writes: the provider.write calls it made, in order
                   \*   error: what it threw: "none", "SinkError", "RangeError"
                   \*   colorCalls: its serializer calls with withColor = true
                   \*   plainCalls: its serializer calls with withColor = false
                   \*   messageParts: the caller's message parts afterwards
  serIn,           \* serializer run: the segments
  serColored,      \* serializer run: the result with withColor = true
  serPlain         \* serializer run: the result with withColor = false

terminalVars == <<providers, verboseEnabled, supportsColor, registeredLast, reRegistered>>

callVars == <<lastOp, args, outcome>>

serVars == <<serIn, serColored, serPlain>>

vars == <<providers, verboseEnabled, supportsColor, registeredLast, reRegistered,
          lastOp, args, outcome, serIn, serColored, serPlain>>

This == [providers |-> providers, supportsColor |-> supportsColor,
         verboseEnabled |-> verboseEnabled]

\* the sinks differ in supportsColor only: number those without colour first
SinkCapabilities ==
  { f \in [Sinks -> BOOLEAN] : \A a, b \in Sinks : (a < b /\ f[a]) => f[b] }

\* new Terminal(provider, verboseEnabled)
Constructed(provider, verbose) ==
  /\ providers = registerProvider(<<>>, provider)
  /\ verboseEnabled = verbose
  /\ registeredLast = [s \in Sinks |-> s = provider]
  /\ reRegistered = {}
  /\ lastOp = "none"
  /\ args = <<>>
  /\ outcome = NoOutcome(<<>>)

Init ==
  /\ \E provider \in Sinks, verbose \in BOOLEAN : Constructed(provider, verbose)
  /\ supportsColor \in SinkCapabilities
  /\ serIn = <<>>
  /\ serColored = Undefined
  /\ serPlain = Undefined

MessageOps ==
  {"write", "writeLine", "writeWarning", "writeWarningLine", "writeError",
   "writeErrorLine", "writeVerbose", "writeVerboseLine"}

\* the caller is between two calls; the Terminal is synchronous, so every
\* call is made by a caller that the previous call has returned to
Idle == lastOp \notin MessageOps

\* an operation that writes nothing: the record of the last call is reset
NoMessage ==
  /\ lastOp' = "none"
  /\ args' = <<>>
  /\ outcome' = NoOutcome(<<>>)

RegisterProvider ==
  \E provider \in Sinks :
    /\ Idle
    /\ providers' = registerProvider(providers, provider)
    /\ reRegistered' = IF registeredLast[provider] THEN {provider}
                                                  ELSE reRegistered \ {provider}
    /\ registeredLast' = [registeredLast EXCEPT ![provider] = TRUE]
    /\ NoMessage
    /\ UNCHANGED <<verboseEnabled, supportsColor, serVars>>

UnregisterProvider ==
  \E provider \in Sinks :
    /\ Idle
    /\ providers' = unregisterProvider(providers, provider)
    /\ registeredLast' = [registeredLast EXCEPT ![provider] = FALSE]
    /\ NoMessage
    /\ UNCHANGED <<verboseEnabled, supportsColor, reRegistered, serVars>>

\* terminal.verboseEnabled = value
SetVerboseEnabled ==
  \E value \in BOOLEAN :
    /\ Idle
    /\ verboseEnabled' = value
    /\ NoMessage
    /\ UNCHANGED <<providers, supportsColor, registeredLast, reRegistered, serVars>>

\* the sinks whose write throws during one call: none, or one of them
FailingSinks == {{}} \cup {{s} : s \in Sinks}


\* a message operation called with messageParts, o its outcome
Message(op, messageParts, o) ==
  /\ Idle
  /\ lastOp' = op
  /\ args' = messageParts
  /\ outcome' = o
  /\ UNCHANGED <<terminalVars, serVars>>


Write ==
  \E messageParts \in ArgLists, env \in FailingSinks :
    Message("write", messageParts, write(This, env, messageParts))

WriteLine ==
  \E messageParts \in ArgLists, env \in FailingSinks :
    Message("writeLine", messageParts, writeLine(This, env, messageParts))

WriteWarning ==
  \E messageParts \in ArgLists, env \in FailingSinks :
    Message("writeWarning", messageParts, writeWarning(This, env, messageParts))

WriteWarningLine ==
  \E messageParts \in ArgLists, env \in FailingSinks :
    Message("writeWarningLine", messageParts, writeWarningLine(This, env, messageParts))

WriteError ==
  \E messageParts \in ArgLists, env \in FailingSinks :
    Message("writeError", messageParts, writeError(This, env, messageParts))

WriteErrorLine ==
  \E messageParts \in ArgLists, env \in FailingSinks :
    Message("writeErrorLine", messageParts, writeErrorLine(This, env, messageParts))

WriteVerbose ==
  \E messageParts \in ArgLists, env \in FailingSinks :
    Message("writeVerbose", messageParts, writeVerbose(This, env, messageParts))

WriteVerboseLine ==
  \E messageParts \in ArgLists, env \in FailingSinks :
    Message("writeVerboseLine", messageParts, writeVerboseLine(This, env, messageParts))

\* the message operation has returned (or thrown) and its caller goes on
Return ==
  /\ ~Idle
  /\ NoMessage
  /\ UNCHANGED <<terminalVars, serVars>>

Next ==
  \/ Return
  \/ RegisterProvider
  \/ UnregisterProvider
  \/ SetVerboseEnabled
  \/ Write
  \/ WriteLine
  \/ WriteWarning
  \/ WriteWarningLine
  \/ WriteError
  \/ WriteErrorLine
  \/ WriteVerbose
  \/ WriteVerboseLine

Spec == Init /\ [][Next]_vars

\* ------------------------------------------- the serializer on its own
SerInit ==
  /\ Constructed(1, FALSE)
  /\ supportsColor = [s \in Sinks |-> FALSE]
  /\ serIn \in SerializerInputs
  /\ serColored = Undefined
  /\ serPlain = Undefined

SerializeWithColor ==
  /\ ~serColored.assigned
  /\ serColored' = Assigned(serializeFormattableTextSegments(serIn, TRUE))
  /\ UNCHANGED <<terminalVars, callVars, serIn, serPlain>>

SerializeWithoutColor ==
  /\ ~serPlain.assigned
  /\ serPlain' = Assigned(serializeFormattableTextSegments(serIn, FALSE))
  /\ UNCHANGED <<terminalVars, callVars, serIn, serColored>>

SerNext == SerializeWithColor \/ SerializeWithoutColor

SerSpec == SerInit /\ [][SerNext]_vars

\* ------------------------------------------------------------ properties
\* the members of Terminal._providers
ProviderSet == { providers[i] : i \in DOMAIN providers }

\* the positions in the log of the provider.write calls made on sink s
WritesTo(s) == { i \in DOMAIN outcome.writes : outcome.writes[i].sink = s }

\* C1: a non-gated message operation calls write at most once on a sink, only
\* on registered sinks, and exactly once on every registered sink when no
\* write throws; the text is the serialization of the segments the operation
\* hands to the fan-out, with colour codes for a sink that supports colour and
\* without for the others; the severity is log for write and writeLine and
\* warn for the warning and error operations.
C1_FanOut ==
  lastOp \in {"write", "writeLine", "writeWarning", "writeWarningLine",
              "writeError", "writeErrorLine"} =>
    /\ outcome.called
    /\ \A i \in DOMAIN outcome.writes :
         /\ outcome.writes[i].sink \in ProviderSet
         /\ outcome.writes[i].severity = (IF lastOp \in {"write", "writeLine"} THEN "log" ELSE "warn")
         /\ outcome.writes[i].text =
              serializeFormattableTextSegments(outcome.segments, supportsColor[outcome.writes[i].sink])
    /\ \A s \in Sinks : Cardinality(WritesTo(s)) <= 1
    /\ outcome.error = "none" => \A s \in ProviderSet : Cardinality(WritesTo(s)) = 1

C1_Witness ==
  /\ lastOp = "writeError"
  /\ outcome.error = "none"
  /\ Len(outcome.writes) = 2
  /\ supportsColor[outcome.writes[1].sink] # supportsColor[outcome.writes[2].sink]
  /\ outcome.writes[1].text # outcome.writes[2].text
  /\ outcome.writes[1].severity = "warn"

\* C2: the registered sinks are exactly the sinks whose latest registration
\* operation is a register (the construction registers the initial sink), the
\* set holds no sink twice, register and unregister throw nothing, and a
\* message operation writes to no other sink and, when no write throws, to
\* every one of them; a sink registered twice and then unregistered is out.
C2_Registration ==
  /\ ProviderSet = { s \in Sinks : registeredLast[s] }
  /\ Cardinality(ProviderSet) = Len(providers)
  /\ lastOp = "none" => outcome.error = "none"
  /\ outcome.called => { outcome.writes[i].sink : i \in DOMAIN outcome.writes }
                 \subseteq { s \in Sinks : registeredLast[s] }
  /\ (outcome.called /\ outcome.error = "none") =>
       { outcome.writes[i].sink : i \in DOMAIN outcome.writes } = { s \in Sinks : registeredLast[s] }
  /\ \A s \in Sinks :
       (s \in reRegistered /\ ~registeredLast[s]) =>
         (s \notin ProviderSet /\ WritesTo(s) = {})

C2_Witness ==
  /\ lastOp = "write"
  /\ outcome.error = "none"
  /\ outcome.writes # <<>>
  /\ \E s \in Sinks :
       /\ s \in reRegistered
       /\ ~registeredLast[s]
       /\ WritesTo(s) = {}

\* C3: writeVerbose writes to no sink when verboseEnabled is false; when it is
\* true, every write it makes has severity log and the serialization of
\* exactly the caller's message parts, nothing appended, and when no write
\* throws every registered sink gets one.
C3_WriteVerbose ==
  lastOp = "writeVerbose" =>
    IF ~verboseEnabled
    THEN outcome.writes = <<>> /\ ~outcome.called /\ outcome.error = "none"
    ELSE /\ outcome.called
         /\ \A i \in DOMAIN outcome.writes :
              /\ outcome.writes[i].sink \in ProviderSet
              /\ outcome.writes[i].severity = "log"
              /\ outcome.writes[i].text =
                   serializeFormattableTextSegments(args, supportsColor[outcome.writes[i].sink])
         /\ outcome.error = "none" => \A s \in ProviderSet : Cardinality(WritesTo(s)) = 1

C3_Witness ==
  /\ lastOp = "writeVerbose"
  /\ verboseEnabled
  /\ outcome.error = "none"
  /\ Len(args) = 2
  /\ Len(outcome.writes) = 2

\* C4: write delivers the serialization of the caller's message parts with no
\* line ending appended, and writeLine that serialization followed by exactly
\* one line ending.
C4_LineEndings ==
  /\ lastOp = "write" =>
       \A i \in DOMAIN outcome.writes :
         outcome.writes[i].text = serializeFormattableTextSegments(args, supportsColor[outcome.writes[i].sink])
  /\ lastOp = "writeLine" =>
       \A i \in DOMAIN outcome.writes :
         outcome.writes[i].text =
           serializeFormattableTextSegments(args, supportsColor[outcome.writes[i].sink]) \o EOL

\* C5: one message operation calls the serializer at most once with colour
\* codes and at most once without, and the sinks of one capability all get the
\* same text.
C5_SerializeOnce ==
  outcome.called =>
    /\ outcome.colorCalls <= 1
    /\ outcome.plainCalls <= 1
    /\ \A i, j \in DOMAIN outcome.writes :
         supportsColor[outcome.writes[i].sink] = supportsColor[outcome.writes[j].sink]
           => outcome.writes[i].text = outcome.writes[j].text

\* C6: the serialization with colour codes is, segment after segment, the
\* foreground start code if a foreground colour is set, the background start
\* code if a background colour is set, the text, the background reset 49 if a
\* background colour is set and the foreground reset 39 if a foreground colour
\* is set, each code as ESC [ code m; Yellow on Blue gives
\* ESC[33m ESC[44m text ESC[49m ESC[39m; segments without colours serialize
\* the same with and without colour codes.
C6_ColoredRendering ==
  LET Index(c) ==
        CASE c = "Black" -> 0 [] c = "Red" -> 1 [] c = "Green" -> 2 [] c = "Yellow" -> 3
          [] c = "Blue" -> 4 [] c = "Magenta" -> 5 [] c = "Cyan" -> 6 [] c = "White" -> 7
          [] c = "Gray" -> 60
      Digits(n) ==
        IF n >= 100 THEN <<Digit(n \div 100), Digit((n \div 10) % 10), Digit(n % 10)>>
        ELSE <<Digit(n \div 10), Digit(n % 10)>>
      Esc(n) == <<"ESC", "[">> \o Digits(n) \o <<"m">>
      One(seg) ==
        (IF seg.foregroundColor # Unset THEN Esc(30 + Index(seg.foregroundColor)) ELSE <<>>)
          \o (IF seg.backgroundColor # Unset THEN Esc(40 + Index(seg.backgroundColor)) ELSE <<>>)
          \o seg.text
          \o (IF seg.backgroundColor # Unset THEN Esc(49) ELSE <<>>)
          \o (IF seg.foregroundColor # Unset THEN Esc(39) ELSE <<>>)
      RECURSIVE Concat(_, _)
      Concat(segs, i) == IF i > Len(segs) THEN <<>> ELSE One(segs[i]) \o Concat(segs, i + 1)
      Colorless(segs) ==
        \A i \in DOMAIN segs :
          segs[i].foregroundColor = Unset /\ segs[i].backgroundColor = Unset
  IN /\ serColored.assigned => serColored.text = Concat(serIn, 1)
     /\ (serColored.assigned /\ serIn = <<Sequence(<<"a">>, "Yellow", "Blue")>>) =>
          serColored.text = <<"ESC", "[", "3", "3", "m", "ESC", "[", "4", "4", "m", "a",
                              "ESC", "[", "4", "9", "m", "ESC", "[", "3", "9", "m">>
     /\ (serColored.assigned /\ serPlain.assigned /\ Colorless(serIn)) =>
          serColored.text = serPlain.text

C6_Witness ==
  /\ serColored.assigned
  /\ serPlain.assigned
  /\ Len(serIn) = 2
  /\ serIn[1].foregroundColor = "Yellow"
  /\ serIn[1].backgroundColor = "Blue"
  /\ serIn[2].backgroundColor = "Gray"

\* C7: writeVerboseLine returns to its caller: it throws nothing of its own,
\* delivers nothing when verboseEnabled is false, and when verboseEnabled is
\* true and no write throws, every registered sink gets, with severity log,
\* the caller's message parts followed by one line ending.
C7_VerboseLineReturns ==
  lastOp = "writeVerboseLine" =>
    /\ outcome.error # "RangeError"
    /\ ~verboseEnabled => outcome.writes = <<>>
    /\ (verboseEnabled /\ outcome.error = "none") =>
         \A s \in ProviderSet :
           \E i \in DOMAIN outcome.writes :
             /\ outcome.writes[i].sink = s
             /\ outcome.writes[i].severity = "log"
             /\ outcome.writes[i].text =
                  serializeFormattableTextSegments(args \o <<EolSegment>>, supportsColor[s])

\* C8: writeErrorLine hands to the fan-out the segments writeError hands to it
\* for the same message parts, every one with a red foreground, followed by
\* one line ending.
C8_ErrorLineRed ==
  lastOp = "writeErrorLine" =>
    outcome.segments = [i \in DOMAIN args |-> ForceForeground(args[i], "Red")] \o <<EolSegment>>

C10_ContinuesAfterFailure ==
  (outcome.called /\ outcome.error = "SinkError") =>
    \A s \in ProviderSet : WritesTo(s) # {}

\* C10 amended: when the write of one sink throws, the operation ends there:
\* the sinks written to are the registered sinks up to the throwing one in
\* iteration order, the throwing one is the last, no later sink is written
\* to, and the writes made before it stand.
C10_AbortsAfterFailure ==
  (outcome.called /\ outcome.error = "SinkError") =>
    /\ outcome.writes # <<>>
    /\ Len(outcome.writes) <= Len(providers)
    /\ \A i \in DOMAIN outcome.writes :
         /\ outcome.writes[i].sink = providers[i]
         /\ outcome.writes[i].ok = (i < Len(outcome.writes))
    /\ \A j \in DOMAIN providers : j > Len(outcome.writes) => WritesTo(providers[j]) = {}

C10_Witness ==
  /\ outcome.called
  /\ outcome.error = "SinkError"
  /\ Len(providers) = 2
  /\ Len(outcome.writes) = 1
  /\ ~outcome.writes[1].ok

====
